---- MODULE Spec2Model ----
(***************************************************************************)
(* A model of class Range of support.py: the A1-notation parser and        *)
(* serializer, the column codec, the consistency adjustment and the        *)
(* add_/sub_/set_ mutators with the derivations built on them; and of the  *)
(* multi-execute mode of class GoogleSheets of google_sheets.py: __enter__,*)
(* __exit__ and the two queues of _execute_batch_update and                *)
(* _execute_batch_update_values.                                           *)
(*                                                                         *)
(* Text is a sequence of one-character strings.  A Python value of type    *)
(* "T | None" is a set with at most one element: None is {} and a value x  *)
(* is {x}.                                                                 *)
(***************************************************************************)
EXTENDS Integers, Sequences, FiniteSets, TLC

None == {}

Some(x) == {x}

Val(o) == CHOOSE x \in o : TRUE

(***************************************************************************)
(* Characters.                                                             *)
(***************************************************************************)
Letters ==
  << "A", "B", "C", "D", "E", "F", "G", "H", "I", "J", "K", "L", "M",
     "N", "O", "P", "Q", "R", "S", "T", "U", "V", "W", "X", "Y", "Z" >>

Digits == << "0", "1", "2", "3", "4", "5", "6", "7", "8", "9" >>

UpperSet == { Letters[i] : i \in DOMAIN Letters }

DigitSet == { Digits[i] : i \in DOMAIN Digits }

\* the regular expression class [A-Z]
IsUpper(c) == c \in UpperSet

\* the regular expression class [0-9]
IsDigit(c) == c \in DigitSet

\* ord(letter) - ord('A')
LetterIndex(c) == (CHOOSE i \in DOMAIN Letters : Letters[i] = c) - 1

\* int(c) of one digit
DigitValue(c) == (CHOOSE i \in DOMAIN Digits : Digits[i] = c) - 1

RECURSIVE Reverse(_)
Reverse(s) == IF s = << >> THEN << >> ELSE Reverse(Tail(s)) \o << Head(s) >>

\* the text of the Python literal None, as an f-string prints it
NoneText == << "N", "o", "n", "e" >>

RECURSIVE NatToStr(_)
NatToStr(n) ==
  IF n < 10 THEN << Digits[n + 1] >>
  ELSE NatToStr(n \div 10) \o << Digits[(n % 10) + 1] >>

\* str(n) of an int
IntToStr(n) == IF n < 0 THEN << "-" >> \o NatToStr(0 - n) ELSE NatToStr(n)

RECURSIVE StrToNat(_)
\* int(s) of a non-empty run of digits (leading zeros allowed)
StrToNat(s) ==
  IF s = << >> THEN 0
  ELSE StrToNat(SubSeq(s, 1, Len(s) - 1)) * 10 + DigitValue(s[Len(s)])

\* f"{x}" of an "int | None"
FmtInt(o) == IF o = None THEN NoneText ELSE IntToStr(Val(o))

\* f"{x}" of a "str | None"
FmtText(o) == IF o = None THEN NoneText ELSE Val(o)

(***************************************************************************)
(* The column codec.                                                       *)
(***************************************************************************)
RECURSIVE ColumnIndexZeroBased(_, _)
\* the loop of _get_column_number without its "+ 1": the letters read as the
\* digits 0..25 of standard base 26
ColumnIndexZeroBased(find, index) ==
  IF find = << >> THEN index
  ELSE ColumnIndexZeroBased(Tail(find), index * 26 + LetterIndex(Head(find)))

RECURSIVE ColumnIndex(_, _)
\* the loop of _get_column_number over the letters found, from index
ColumnIndex(find, index) ==
  IF find = << >> THEN index
  ELSE ColumnIndex(Tail(find), index * 26 + 1 + LetterIndex(Head(find)))

\* Range._get_column_number
GetColumnNumber(name) ==
  IF name = None THEN None
  ELSE LET find == SelectSeq(Val(name), IsUpper)
       IN  IF Len(find) < 1 THEN None ELSE Some(ColumnIndex(find, 0))

\* the length of the run of digits that starts s
RECURSIVE DigitRun(_)
DigitRun(s) ==
  IF s # << >> /\ IsDigit(Head(s)) THEN 1 + DigitRun(Tail(s)) ELSE 0

RECURSIVE FirstDigits(_)
\* re.findall("[0-9]+", s)[0], or << >> when there is no digit
FirstDigits(s) ==
  IF s = << >> THEN << >>
  ELSE IF IsDigit(Head(s)) THEN SubSeq(s, 1, DigitRun(s))
  ELSE FirstDigits(Tail(s))

\* Range._get_row_number
GetRowNumber(number) ==
  IF number = None THEN None
  ELSE LET find == FirstDigits(Val(number))
       IN  IF find = << >> THEN None ELSE Some(StrToNat(find))

RECURSIVE ColumnNameLoop(_)
\* the while loop of _get_column_name: result, before it is reversed
ColumnNameLoop(number) ==
  IF number > 0
  THEN << Letters[((number - 1) % 26) + 1] >>
         \o ColumnNameLoop((number - 1) \div 26)
  ELSE << >>

\* Range._get_column_name
GetColumnName(number) ==
  IF number = None THEN None
  ELSE LET result == ColumnNameLoop(Val(number))
       IN  IF result = << >> THEN None ELSE Some(Reverse(result))

(***************************************************************************)
(* The notation parser: the three alternatives of _extract_range.          *)
(***************************************************************************)
\* the length of the run of [A-Z] that starts s
RECURSIVE UpperRun(_)
UpperRun(s) ==
  IF s # << >> /\ IsUpper(Head(s)) THEN 1 + UpperRun(Tail(s)) ELSE 0

Drop(s, n) == SubSeq(s, n + 1, Len(s))

\* "." of a regular expression: any character but a newline
IsDot(c) == c # "\n"

\* "$" of a regular expression: the end, or just before a final newline
AtEnd(s) == s = << >> \/ s = << "\n" >>

\* ([0-9]+)$ of the first alternative, after the end column ecol
MatchEndRow(col, row, ecol, s, n4) ==
  IF n4 > 0 /\ AtEnd(Drop(s, n4))
  THEN Some(<< col, row, ecol, SubSeq(s, 1, n4) >>) ELSE None

\* ([A-Z]+)([0-9]+)$ of the first alternative and ([A-Z]+)()$ of the
\* second, after the colon, n3 being the length of the run of [A-Z]
MatchEnd(k, col, row, s, n3) ==
  IF n3 = 0 THEN None
  ELSE IF k = 2
  THEN IF AtEnd(Drop(s, n3))
       THEN Some(<< col, row, SubSeq(s, 1, n3), << >> >>) ELSE None
  ELSE MatchEndRow(col, row, SubSeq(s, 1, n3), Drop(s, n3),
                   DigitRun(Drop(s, n3)))

\* what alternative k has after its start cell: the groups 2..5, or None
MatchAfterCell(k, col, row, rest) ==
  IF k = 3
  THEN IF AtEnd(rest) THEN Some(<< col, row, << >>, << >> >>) ELSE None
  ELSE IF rest = << >> \/ Head(rest) # ":" THEN None
  ELSE MatchEnd(k, col, row, Tail(rest), UpperRun(Tail(rest)))

\* ([A-Z]+)([0-9]+) at the start of s, of n1 letters and n2 digits.  Both
\* runs are taken whole: a shorter run is followed by a character of its own
\* class, which nothing after it in the three expressions accepts.
MatchCell(k, s, n1, n2) ==
  IF n1 = 0 \/ n2 = 0 THEN None
  ELSE MatchAfterCell(k, SubSeq(s, 1, n1), SubSeq(s, n1 + 1, n1 + n2),
                      Drop(s, n1 + n2))

\* alternative k of regexs without its (.+!)? prefix, against all of s:
\* the groups 2..5, or None
MatchBody(k, s) ==
  MatchCell(k, s, UpperRun(s), DigitRun(Drop(s, UpperRun(s))))

\* the ends p of a prefix s[1..p] that (.+!) can match with the rest of
\* alternative k matching what follows
PrefixEnds(k, s) ==
  { p \in 2..Len(s) :
      /\ s[p] = "!"
      /\ \A q \in 1..(p - 1) : IsDot(s[q])
      /\ MatchBody(k, Drop(s, p)) # None }

Max(S) == CHOOSE x \in S : \A y \in S : y <= x

\* the five groups of alternative k when its prefix ends at p (0: no prefix);
\* a group that takes no part in the match is the empty text
GroupsAt(k, s, p) ==
  IF MatchBody(k, Drop(s, p)) = None THEN None
  ELSE Some(<< SubSeq(s, 1, p) >> \o Val(MatchBody(k, Drop(s, p))))

\* (.+!)? is greedy: the longest prefix first, no prefix last
LongestPrefix(ends) == IF ends # {} THEN Max(ends) ELSE 0

\* alternative k of regexs against s: its five groups, or None
MatchAlt(k, s) == GroupsAt(k, s, LongestPrefix(PrefixEnds(k, s)))

\* the number of alternatives in regexs
NumRegexs == 3

\* the tuple of 15 groups of a match of alternative k
AllGroups(k, groups) ==
  [ j \in 1..(5 * NumRegexs) |->
      IF (j - 1) \div 5 + 1 = k THEN groups[((j - 1) % 5) + 1] ELSE << >> ]

RECURSIVE FindFrom(_, _)
\* the alternatives are tried in order, from alternative k on
FoundOr(s, k, m) ==
  IF m # None THEN << AllGroups(k, Val(m)) >> ELSE FindFrom(s, k + 1)

FindFrom(s, k) ==
  IF k > NumRegexs THEN << >> ELSE FoundOr(s, k, MatchAlt(k, s))

\* re.findall("".join(regexs), _range): the alternatives are anchored, so
\* there is at most one match, of the first alternative that matches
FindAll(s) == FindFrom(s, 1)

\* tuple(map(lambda r: r if r else None, findall[0]))
NoneIfEmpty(groups) ==
  [ j \in DOMAIN groups |->
      IF groups[j] # << >> THEN Some(groups[j]) ELSE None ]

RECURSIVE FirstGroup(_, _, _)
\* result[j] after the loops over i and j: the first find[j + 5 * i] that
\* is not None
FirstGroup(find, j, i) ==
  IF i >= NumRegexs THEN None
  ELSE IF find[j + 5 * i] # None THEN find[j + 5 * i]
  ELSE FirstGroup(find, j, i + 1)

\* result[0] kept as the expression matched it, its final "!" included
StripNameKeep(name) == name

\* result[0][:-1] when result[0] ends with "!"
StripName(name) ==
  IF name # None /\ Val(name)[Len(Val(name))] = "!"
  THEN Some(SubSeq(Val(name), 1, Len(Val(name)) - 1)) ELSE name

\* the list result of _extract_range, from the groups find
ExtractResult(find) ==
  [ j \in 1..5 |->
      IF j = 1 THEN StripName(FirstGroup(find, 1, 0))
      ELSE FirstGroup(find, j, 0) ]

\* _extract_range after findall
ExtractFound(findall) ==
  IF Len(findall) = 0 THEN None
  ELSE Some(ExtractResult(NoneIfEmpty(findall[1])))

\* Range._extract_range: None, or the list of five "str | None"
ExtractRange(s) == ExtractFound(FindAll(s))

(***************************************************************************)
(* A Range: its five attributes.                                           *)
(***************************************************************************)
MkRange(sheetname, start_col, start_row, end_col, end_row) ==
  [ sheetname |-> sheetname, start_row |-> start_row, start_col |-> start_col,
    end_row |-> end_row, end_col |-> end_col ]

\* __consistency_adjust of a start coordinate
AdjustStart(start) ==
  IF start = None \/ Val(start) < 0 THEN Some(1) ELSE start

\* __consistency_adjust that leaves an end before its start where it is
AdjustEndKeep(end, start) == end

\* __consistency_adjust of an end coordinate, start being adjusted already
AdjustEnd(end, start) ==
  IF end # None /\ Val(end) < Val(start) THEN start ELSE end

\* __consistency_adjust with its two tests on the start only: an end before
\* its start stays
ConsistencyAdjustStarts(r) ==
  MkRange(r.sheetname, AdjustStart(r.start_col), AdjustStart(r.start_row),
          r.end_col, r.end_row)

\* a start brought down to an end that is before it
StartUnder(start, end) ==
  IF end # None /\ Val(end) < Val(start) THEN end ELSE start

\* __consistency_adjust that repairs an end before its start by moving the
\* start to the end
ConsistencyAdjustMovingStart(r) ==
  MkRange(r.sheetname,
          StartUnder(AdjustStart(r.start_col), r.end_col),
          StartUnder(AdjustStart(r.start_row), r.end_row),
          r.end_col, r.end_row)

\* Range.__consistency_adjust
ConsistencyAdjust(r) ==
  MkRange(r.sheetname,
          AdjustStart(r.start_col), AdjustStart(r.start_row),
          AdjustEnd(r.end_col, AdjustStart(r.start_col)),
          AdjustEnd(r.end_row, AdjustStart(r.start_row)))

\* val of _calc_row_col when it reaches setattr
CalcVal(val, add, sub, change) ==
  IF change # None THEN Val(change)
  ELSE (IF val = None THEN 0 ELSE Val(val))
         + (IF add # None THEN Val(add) ELSE 0)
         - (IF sub # None THEN Val(sub) ELSE 0)

\* _calc_row_col that also closes an absent end_row on the start row
CalcRowColClosing(r, attr, add, sub, change) ==
  ConsistencyAdjust(
    [ r EXCEPT ![attr] = Some(CalcVal(r[attr], add, sub, change)),
               !.end_row = IF attr # "end_row" /\ @ = None
                           THEN r.start_row ELSE @ ])

\* Range._calc_row_col: the Range after the call; add, sub and change are
\* each an "int | None"
CalcRowCol(r, attr, add, sub, change) ==
  IF add = None /\ sub = None /\ change = None THEN r
  ELSE ConsistencyAdjust(
         [ r EXCEPT ![attr] = Some(CalcVal(r[attr], add, sub, change)) ])

\* Range.get_start_letter
GetStartLetter(r) == GetColumnName(r.start_col)

\* Range.get_start (index_val False)
GetStart(r) == FmtText(GetStartLetter(r)) \o FmtInt(r.start_row)

\* Range.get_end_letter
GetEndLetter(r) == GetColumnName(r.end_col)

\* get_end that never writes the end row
GetEndLetterOnly(r) == GetEndLetter(r)

\* Range.get_end: a "str | None"
GetEnd(r) ==
  IF GetEndLetter(r) = None /\ r.end_row = None THEN None
  ELSE IF r.end_row = None THEN GetEndLetter(r)
  ELSE Some(FmtText(GetEndLetter(r)) \o FmtInt(r.end_row))

\* Range.get_range
GetRange(r) ==
  (IF r.sheetname = None THEN << >> ELSE Val(r.sheetname) \o << "!" >>)
    \o GetStart(r)
    \o (IF GetEnd(r) = None THEN << >> ELSE << ":" >> \o Val(GetEnd(r)))

(***************************************************************************)
(* Construction.  The outcome of a constructor is the exception it raises  *)
(* and the Range it builds, None when it raises.                           *)
(***************************************************************************)
NoExc == [ type |-> "none", msg |-> << >> ]

EmptyRangeException ==
  [ type |-> "EmptyRangeException",
    msg |-> << "A Range is required, use the example structure: PageName!A6:F10" >> ]

InvalidRangeException(s) ==
  [ type |-> "InvalidRangeException",
    msg |-> << "Range '", s,
               "' in invalid format, use the example structure: PageName!A6:F10" >> ]

Raised(e) == [ exc |-> e, obj |-> None ]

Built(r) == [ exc |-> NoExc, obj |-> Some(r) ]

\* _load_by_range of a str, after _extract_range
LoadExtract(s, extract) ==
  IF extract = None \/ Len(Val(extract)) # 5
  THEN Raised(InvalidRangeException(s))
  ELSE Built(MkRange(Val(extract)[1],
                     GetColumnNumber(Val(extract)[2]),
                     GetRowNumber(Val(extract)[3]),
                     GetColumnNumber(Val(extract)[4]),
                     GetRowNumber(Val(extract)[5])))

\* Range._load_by_range of a str
LoadByRange(s) == LoadExtract(s, ExtractRange(s))

\* Range._load_by_detached_range
LoadByDetachedRange(sheetname, start, end) ==
  LoadByRange((IF sheetname = None THEN << >> ELSE Val(sheetname) \o << "!" >>)
                \o start
                \o (IF end = None THEN << >> ELSE << ":" >> \o Val(end)))

\* Range._load_by_number
LoadByNumber(sheetname, start_col, start_row, end_col, end_row) ==
  Built(MkRange(sheetname, start_col, start_row, end_col, end_row))

\* the end of Range.__init__: __consistency_adjust when nothing was raised
InitAdjust(loaded) ==
  IF loaded.obj = None THEN loaded
  ELSE Built(ConsistencyAdjust(Val(loaded.obj)))

\* match len(args) of Range.__init__: the loader of each case, "raise" for
\* case _
InitLoader(n) ==
  IF n = 1 THEN "_load_by_range"
  ELSE IF n = 3 THEN "_load_by_detached_range"
  ELSE IF n = 5 THEN "_load_by_number" ELSE "raise"

\* Range.__init__(*args) of n arguments whose loader ends with outcome
RangeInit(n, outcome) ==
  IF InitLoader(n) = "raise" THEN Raised(EmptyRangeException)
  ELSE InitAdjust(outcome)

\* Range(range) of a str
RangeOfText(s) == InitAdjust(LoadByRange(s))

\* Range(sheetname, start, end)
RangeOfDetached(sheetname, start, end) ==
  InitAdjust(LoadByDetachedRange(sheetname, start, end))

\* Range(sheetname, start_col, start_row, end_col, end_row)
RangeOfNumbers(sheetname, start_col, start_row, end_col, end_row) ==
  InitAdjust(LoadByNumber(sheetname, start_col, start_row, end_col, end_row))

\* Range(range) of a Range r: _load_by_range copies the five attributes
RangeOfFields(r) == InitAdjust(Built(r))

(***************************************************************************)
(* The mutators and the derivations, as functions of the receiver.         *)
(***************************************************************************)
\* the attribute each add_/sub_/set_ method passes to _calc_row_col
MutatorAttr ==
  [ add_start_row |-> "start_row", sub_start_row |-> "start_row",
    set_start_row |-> "start_row",
    add_start_col |-> "start_col", sub_start_col |-> "start_col",
    set_start_col |-> "start_col",
    add_end_row |-> "end_row", sub_end_row |-> "end_row",
    set_end_row |-> "end_row",
    add_end_col |-> "end_col", sub_end_col |-> "end_col",
    set_end_col |-> "end_col" ]

\* the keyword each method passes its argument as
MutatorMode ==
  [ add_start_row |-> "add", sub_start_row |-> "sub", set_start_row |-> "change",
    add_start_col |-> "add", sub_start_col |-> "sub", set_start_col |-> "change",
    add_end_row |-> "add", sub_end_row |-> "sub", set_end_row |-> "change",
    add_end_col |-> "add", sub_end_col |-> "sub", set_end_col |-> "change" ]

MutatorNames == DOMAIN MutatorAttr

\* the twelve add_/sub_/set_ methods: r after m(val), val an "int | None"
CallMutator(m, r, val) ==
  CalcRowCol(r, MutatorAttr[m],
             IF MutatorMode[m] = "add" THEN val ELSE None,
             IF MutatorMode[m] = "sub" THEN val ELSE None,
             IF MutatorMode[m] = "change" THEN val ELSE None)

\* jump_row that moves the end row whatever truncate is
JumpEndAlways(r1, truncate) == CallMutator("add_end_row", r1, Some(1))

\* jump_row after add_start_row(1) gave r1
JumpEnd(r1, truncate) ==
  IF ~truncate THEN CallMutator("add_end_row", r1, Some(1)) ELSE r1

\* Range.jump_row: the receiver after the call
JumpRow(r, truncate) ==
  JumpEnd(CallMutator("add_start_row", r, Some(1)), truncate)

\* new_range_by_row: the branch on start_index
NewRangeStart(rg, start_index) ==
  IF start_index < 0
  THEN CallMutator("sub_start_row", rg, Some(start_index))
  ELSE CallMutator("add_start_row", rg, Some(start_index))

\* new_range_by_row: the branch on end_index, an "int | None"
NewRangeEnd(rg, end_index) ==
  IF end_index = None THEN CallMutator("set_end_row", rg, rg.start_row)
  ELSE IF Val(end_index) < 0 THEN CallMutator("sub_end_row", rg, end_index)
  ELSE CallMutator("add_end_row", rg, end_index)

\* Range.new_range_by_row: the Range returned
NewRangeByRow(r, start_index, end_index) ==
  NewRangeEnd(
    NewRangeStart(CallMutator("set_end_row", r, r.start_row), start_index),
    end_index)

\* cols of by_data; data is a list of rows, each a list of cells
DataCols(data) == IF Len(data) # 0 THEN Len(data[1]) ELSE 0

\* by_data that sets the end row to the start row plus rows
ByDataRowsPlus(data, rg) ==
  CallMutator("set_end_row", rg, Some(Val(rg.start_row) + Len(data)))

\* by_data: rg.set_end_row(rg.get_start_row() + rows - 1)
ByDataRows(data, rg) ==
  CallMutator("set_end_row", rg, Some(Val(rg.start_row) + Len(data) - 1))

\* Range.by_data after rg = Range(_range) built rg: the Range returned
ByData(data, rg) ==
  ByDataRows(data,
    CallMutator("set_end_col", rg,
                Some(Val(rg.start_col) + DataCols(data) - 1)))

(***************************************************************************)
(* The state: the Range instances that exist, the class attribute          *)
(* Range.last, and what the last call did.                                 *)
(***************************************************************************)
VARIABLES
  heap,        \* the Range instances, in the order of their creation
  last,        \* Range.last: None, or the index in heap of an instance
  exc,         \* the exception the last call raised, NoExc when it returned
  call,        \* the last call: its name, its receiver, what it returned
  input,       \* the text a caller is about to construct a Range from
  loaded,      \* the outcome of _load_by_range(input), once called
  col_number,  \* a column number a caller converts to a name and back
  col_name,    \* _get_column_name(col_number), once computed
  col_decoded, \* _get_column_number(col_name), once computed
  multi_execute_mode,         \* GoogleSheets.__multi_execute_mode
  multi_batch_updates,        \* GoogleSheets.__multi_batch_updates
  multi_batch_updates_values, \* GoogleSheets.__multi_batch_updates_values
  service,     \* the batchUpdate calls made on GoogleSheets.service, in order
  withs        \* the 'with' blocks on the GoogleSheets a caller is inside of

vars ==
  << heap, last, exc, call, input, loaded, col_number, col_name, col_decoded,
     multi_execute_mode, multi_batch_updates, multi_batch_updates_values,
     service, withs >>

\* coordinates and integer arguments stay within -MaxCoord..MaxCoord
MaxCoord == 2

\* a behaviour ends when MaxObjs Range instances exist
MaxObjs == 2

\* a data grid has at most MaxGrid rows of at most MaxGrid cells
MaxGrid == 2

\* the texts a caller constructs from include all texts of this length
MaxTextLen == 3

\* the column numbers a caller converts go up to MaxColumn
MaxColumn == 750

ArgInts == (0 - MaxCoord)..MaxCoord

OptInts == { None } \cup { Some(n) : n \in ArgInts }

SheetNames == { None, Some(<< "S" >>) }

\* the data of by_data: by_data reads len(data) and len(data[0]) only
Grids ==
  { [ i \in 1..rows |-> [ j \in 1..cols |-> "x" ] ] :
      rows \in 0..MaxGrid, cols \in 0..MaxGrid }

\* texts a caller passes where a Range or its notation is expected
CallTexts ==
  { << >>, << "B", "2" >>, << "b", "2" >>, << "B", "2", ":", "A", "1" >>,
    << "S", "!", "A", "1", ":", "B" >>, << "A", "1", ":", "B", "2" >> }

\* Range(range) of each of these texts
TextOutcome == [ s \in CallTexts |-> RangeOfText(s) ]

\* the arguments of Range(sheetname, start, end)
CallDetached ==
  SheetNames \X { << "B", "2" >>, << "A", "0" >>, << "B" >> }
             \X { None, Some(<< "A", "1" >>), Some(<< "B" >>) }

\* Range(sheetname, start, end) of each of these arguments
DetachedOutcome ==
  [ a \in CallDetached |-> RangeOfDetached(a[1], a[2], a[3]) ]

\* the arguments of Range(sheetname, start_col, start_row, end_col, end_row):
\* all of them for the first instance, a few for a later one
AllNumbers == SheetNames \X OptInts \X OptInts \X OptInts \X OptInts

CallNumbers ==
  { << None, None, None, None, None >>,
    << None, Some(0), Some(0), None, Some(MaxCoord) >>,
    << Some(<< "S" >>), Some(MaxCoord), Some(1), Some(1), Some(0 - 1) >> }

Objs == 1..Len(heap)

InBounds(r) ==
  \A a \in { "start_row", "start_col", "end_row", "end_col" } :
    IF r[a] = None THEN TRUE ELSE Val(r[a]) <= MaxCoord

\* no call yet; val_none tells whether an add_/sub_/set_ method was called
\* with None, which is also its default; args are the arguments of a
\* derivation, where they are recorded
NoCall ==
  [ name |-> "none", self |-> None, ret |-> None, val_none |-> FALSE,
    args |-> << >> ]

CodecIdle ==
  /\ col_number = None
  /\ col_name = None
  /\ col_decoded = None

TextIdle ==
  /\ input = << >>
  /\ loaded = None

\* GoogleSheets.__init__: not in multi-execute mode, nothing queued; the
\* service has received no call and the caller is in no 'with' block
SheetsIdle ==
  /\ multi_execute_mode = FALSE
  /\ multi_batch_updates = << >>
  /\ multi_batch_updates_values = << >>
  /\ service = << >>
  /\ withs = 0

Init ==
  /\ heap = << >>
  /\ last = None
  /\ exc = NoExc
  /\ call = NoCall
  /\ TextIdle
  /\ CodecIdle
  /\ SheetsIdle

\* the GoogleSheets, which no method of Range reads or writes
SheetsRest ==
  UNCHANGED << multi_execute_mode, multi_batch_updates,
               multi_batch_updates_values, service, withs >>

Rest ==
  /\ UNCHANGED << input, loaded, col_number, col_name, col_decoded >>
  /\ SheetsRest

\* a call raises e: no instance is created or changed, Range.last stays
Raise(nm, self, e) ==
  /\ exc' = e
  /\ call' = [ name |-> nm, self |-> self, ret |-> None, val_none |-> FALSE,
               args |-> << >> ]
  /\ UNCHANGED << heap, last >>
  /\ Rest

\* a call that returns its receiver where it should return a new instance
CreateNothing(nm, self, r) ==
  /\ exc' = NoExc
  /\ call' = [ name |-> nm, self |-> self, ret |-> self, val_none |-> FALSE,
               args |-> << >> ]
  /\ UNCHANGED << heap, last >>
  /\ Rest

\* a call returns the new instance r, built without __init__ (copy,
\* deepcopy): Range.last stays
Create(nm, self, r) ==
  /\ Len(heap) < MaxObjs
  /\ heap' = Append(heap, r)
  /\ exc' = NoExc
  /\ call' = [ name |-> nm, self |-> self, ret |-> Some(Len(heap) + 1),
               val_none |-> FALSE,
               args |-> << >> ]
  /\ UNCHANGED last
  /\ Rest

\* the end of a Range.__init__ that does not bind Range.last
ConstructUnbound(nm, self, outcome) ==
  IF outcome.obj = None THEN Raise(nm, self, outcome.exc)
  ELSE Create(nm, self, Val(outcome.obj))

\* the end of Range.__init__ and of by_data: the instance built is new, and
\* Range.last is bound to it; nothing of this happens when loading raised
Construct(nm, self, outcome) ==
  IF outcome.obj = None THEN Raise(nm, self, outcome.exc)
  ELSE /\ Len(heap) < MaxObjs
       /\ heap' = Append(heap, Val(outcome.obj))
       /\ last' = Some(Len(heap) + 1)
       /\ exc' = NoExc
       /\ call' = [ name |-> nm, self |-> self, ret |-> Some(Len(heap) + 1),
                    val_none |-> FALSE,
                    args |-> << >> ]
       /\ Rest

\* a call changes the receiver heap[i] to r and returns self
Update(nm, i, r, val_none) ==
  /\ heap' = [ heap EXCEPT ![i] = r ]
  /\ exc' = NoExc
  /\ call' = [ name |-> nm, self |-> Some(i), ret |-> Some(i),
               val_none |-> val_none,
               args |-> << >> ]
  /\ UNCHANGED last
  /\ Rest

\* Range(*args) ends with outcome: an exception, or a new instance that
\* Range.last is bound to; the instances that exist stay as they are
InitStep(nm, self, args, outcome) ==
  /\ call = NoCall
  /\ exc' = outcome.exc
  /\ heap' = (IF outcome.obj = None THEN heap
              ELSE Append(heap, Val(outcome.obj)))
  /\ last' = (IF outcome.obj = None THEN last ELSE Some(Len(heap) + 1))
  /\ call' = [ name |-> nm, self |-> self,
               ret |-> (IF outcome.obj = None THEN None
                        ELSE Some(Len(heap) + 1)),
               val_none |-> FALSE, args |-> args ]
  /\ Rest

\* Range(heap[1])
RangeRangeStep ==
  /\ Len(heap) = 1
  /\ InitStep("Range(Range)", Some(1), << 1 >>, RangeInit(1, Built(heap[1])))

Bounded(outcome) ==
  IF outcome.obj = None THEN TRUE ELSE InBounds(Val(outcome.obj))

\* Range(range) with a str
RangeStr(s) ==
  /\ Bounded(TextOutcome[s])
  /\ Construct("Range(str)", None, TextOutcome[s])

\* Range(range) with the Range heap[i]
RangeRange(i) ==
  Construct("Range(Range)", Some(i), RangeOfFields(heap[i]))

\* Range(sheetname, start, end)
RangeDetached(a) ==
  /\ Bounded(DetachedOutcome[a])
  /\ Construct("Range(detached)", None, DetachedOutcome[a])

\* Range(sheetname, start_col, start_row, end_col, end_row)
RangeNumbers(sheetname, start_col, start_row, end_col, end_row) ==
  \E outcome \in
       { RangeOfNumbers(sheetname, start_col, start_row, end_col, end_row) } :
    /\ Bounded(outcome)
    /\ Construct("Range(numbers)", None, outcome)

\* Range(...) with a number of arguments other than 1, 3 and 5
RangeOtherArity ==
  Raise("Range(other)", None, EmptyRangeException)

\* one of the twelve add_/sub_/set_ methods on heap[i]
Mutator(i, m, val) ==
  \E r \in { CallMutator(m, heap[i], val) } :
    /\ InBounds(r)
    /\ Update(m, i, r, val = None)

\* Range.set_sheetname
SetSheetname(i, sheetname) ==
  Update("set_sheetname", i, [ heap[i] EXCEPT !.sheetname = sheetname ], FALSE)

\* Range.copy: copy and deepcopy give the same five attributes
Copy(i, deep) ==
  Create("copy", Some(i), heap[i])

\* Range.jump_row
JumpRowCall(i, truncate) ==
  \E r \in { JumpRow(heap[i], truncate) } :
    /\ InBounds(r)
    /\ Update("jump_row", i, r, FALSE)

\* Range.new_range_by_row
NewRangeByRowCall(i, start_index, end_index) ==
  \E r \in { NewRangeByRow(heap[i], start_index, end_index) } :
    /\ InBounds(r)
    /\ Create("new_range_by_row", Some(i), r)

\* the outcome of Range.by_data once Range(_range) has loaded
ByDataOutcome(data, loaded_range) ==
  IF loaded_range.obj = None THEN loaded_range
  ELSE Built(ByData(data, Val(loaded_range.obj)))

\* Range.by_data with the Range heap[i] as _range
ByDataRange(data, i) ==
  \E outcome \in { ByDataOutcome(data, RangeOfFields(heap[i])) } :
    /\ Bounded(outcome)
    /\ Construct("by_data", Some(i), outcome)

\* Range.by_data with a str as _range
ByDataStr(data, s) ==
  \E outcome \in { ByDataOutcome(data, TextOutcome[s]) } :
    /\ Bounded(outcome)
    /\ Construct("by_data", None, outcome)

Active == Len(heap) < MaxObjs

Next ==
  \/ \E s \in CallTexts : Active /\ RangeStr(s)
  \/ \E i \in Objs : Active /\ RangeRange(i)
  \/ \E a \in CallDetached : Active /\ RangeDetached(a)
  \/ \E a \in (IF heap = << >> THEN AllNumbers ELSE CallNumbers) :
       Active /\ RangeNumbers(a[1], a[2], a[3], a[4], a[5])
  \/ Active /\ RangeOtherArity
  \/ \E i \in Objs, m \in MutatorNames, val \in OptInts :
       Active /\ Mutator(i, m, val)
  \/ \E i \in Objs, sheetname \in SheetNames : Active /\ SetSheetname(i, sheetname)
  \/ \E i \in Objs, deep \in BOOLEAN : Active /\ Copy(i, deep)
  \/ \E i \in Objs, truncate \in BOOLEAN : Active /\ JumpRowCall(i, truncate)
  \/ \E i \in Objs, start_index \in ArgInts, end_index \in OptInts :
       Active /\ NewRangeByRowCall(i, start_index, end_index)
  \/ \E data \in Grids, i \in Objs : Active /\ ByDataRange(data, i)
  \/ \E data \in Grids, s \in CallTexts : Active /\ ByDataStr(data, s)

Spec == Init /\ [][Next]_vars

(***************************************************************************)
(* Construction from a text: the texts of at most MaxTextLen characters    *)
(* of a small alphabet, the texts of the three shapes put together from    *)
(* parts, and the examples of the documentation.                           *)
(***************************************************************************)
TextAlphabet == { "A", "B", "a", "0", "1", "2", ":", "!", "\n" }

ShortTexts == UNION { [ 1..n -> TextAlphabet ] : n \in 0..MaxTextLen }

ShapeNames == { None, Some(<< "S" >>), Some(<< "a", "!", "b" >>) }

ShapeCols == { << "A" >>, << "B" >>, << "A", "A" >> }

ShapeRows == { << "1" >>, << "2" >>, << "0", "2" >>, << "1", "0" >> }

\* the parts of a text of one of the three shapes: the name, the start
\* column and row, the end column and the end row, the last three optional
ShapeParts ==
  { p \in ShapeNames \X ShapeCols \X ShapeRows
            \X ({ None } \cup { Some(c) : c \in ShapeCols })
            \X ({ None } \cup { Some(r) : r \in ShapeRows }) :
      p[4] = None => p[5] = None }

\* the text [name!]ColRow[:Col[Row]] of the parts p
ShapeText(p) ==
  (IF p[1] = None THEN << >> ELSE Val(p[1]) \o << "!" >>)
    \o p[2] \o p[3]
    \o (IF p[4] = None THEN << >> ELSE << ":" >> \o Val(p[4]))
    \o (IF p[5] = None THEN << >> ELSE Val(p[5]))

ShapeTexts == { ShapeText(p) : p \in ShapeParts }

Sheet1 == << "S", "h", "e", "e", "t", "1" >>

ExampleTexts ==
  { Sheet1 \o << "!", "B", "2", ":", "D", "1", "0" >>,
    Sheet1 \o << "!", "Z", "Z", "Z" >>,
    << "B", ":", "D" >>,
    << "B", "2", ":", "D" >> }

TextInputs == ShortTexts \cup ShapeTexts \cup ExampleTexts

\* what exists before the call: nothing, or the Range of "B2" that
\* Range.last is bound to
PriorHeaps == { << >>, << MkRange(None, Some(2), Some(2), None, None) >> }

InitText ==
  /\ input \in TextInputs
  /\ loaded = None
  /\ heap \in PriorHeaps
  /\ last = IF heap = << >> THEN None ELSE Some(1)
  /\ exc = NoExc
  /\ call = NoCall
  /\ CodecIdle
  /\ SheetsIdle

\* Range(input)
RangeInput ==
  /\ call = NoCall
  /\ Construct("Range(str)", None, RangeOfText(input))

\* _load_by_range(input), on an instance under construction
LoadByRangeCall ==
  /\ call = NoCall
  /\ \E outcome \in { LoadByRange(input) } :
       /\ loaded' = Some(outcome)
       /\ exc' = outcome.exc
  /\ call' = [ name |-> "_load_by_range", self |-> None, ret |-> None,
               val_none |-> FALSE,
               args |-> << >> ]
  /\ UNCHANGED << heap, last, input, col_number, col_name, col_decoded >>
  /\ SheetsRest

NextText ==
  \/ RangeInput
  \/ LoadByRangeCall

SpecText == InitText /\ [][NextText]_vars

(***************************************************************************)
(* The column codec: a number is converted to a name, the name back.       *)
(***************************************************************************)
ColumnInputs == { None } \cup { Some(n) : n \in (0 - 1)..MaxColumn }

InitCodec ==
  /\ heap = << >>
  /\ last = None
  /\ exc = NoExc
  /\ call = NoCall
  /\ TextIdle
  /\ col_number \in ColumnInputs
  /\ col_name = None
  /\ col_decoded = None
  /\ SheetsIdle

\* _get_column_name(col_number)
GetColumnNameCall ==
  /\ call = NoCall
  /\ col_name' = GetColumnName(col_number)
  /\ call' = [ name |-> "_get_column_name", self |-> None, ret |-> None,
               val_none |-> FALSE,
               args |-> << >> ]
  /\ UNCHANGED << heap, last, exc, input, loaded, col_number, col_decoded >>
  /\ SheetsRest

\* _get_column_number(col_name)
GetColumnNumberCall ==
  /\ call.name = "_get_column_name"
  /\ col_decoded' = GetColumnNumber(col_name)
  /\ call' = [ name |-> "_get_column_number", self |-> None, ret |-> None,
               val_none |-> FALSE,
               args |-> << >> ]
  /\ UNCHANGED << heap, last, exc, input, loaded, col_number, col_name >>
  /\ SheetsRest

NextCodec ==
  \/ GetColumnNameCall
  \/ GetColumnNumberCall

SpecCodec == InitCodec /\ [][NextCodec]_vars

(***************************************************************************)
(* The derivations, one call on a base Range: jump_row, new_range_by_row   *)
(* and by_data, with their arguments recorded in call.args.                *)
(***************************************************************************)
\* the coordinates of a base go up to MaxBase
MaxBase == 3

\* start_index and end_index stay within -MaxOffset..MaxOffset
MaxOffset == 2

\* the data of by_data has at most MaxRows rows of at most MaxCols cells
MaxRows == 3

MaxCols == 2

BaseInts == { None } \cup { Some(n) : n \in (0 - 1)..MaxBase }

BaseTexts ==
  { << "B", "2" >>, << "B", "2", ":", "D" >>,
    << "B", "2", ":", "D", "1", "0" >>,
    << "S", "!", "B", "5", ":", "D", "9" >> }

\* the bases: what Range(...) builds from numbers and from these texts
DeriveBases ==
  { Val(RangeOfNumbers(a[1], a[2], a[3], a[4], a[5]).obj) :
      a \in SheetNames \X BaseInts \X BaseInts \X BaseInts \X BaseInts }
    \cup { Val(RangeOfText(s).obj) : s \in BaseTexts }

Offsets == (0 - MaxOffset)..MaxOffset

OptOffsets == { None } \cup { Some(n) : n \in Offsets }

DataGrids ==
  { [ i \in 1..rows |-> [ j \in 1..cols |-> "x" ] ] :
      rows \in 0..MaxRows, cols \in 0..MaxCols }

InitDerive ==
  /\ heap \in { << r >> : r \in DeriveBases }
  /\ last = Some(1)
  /\ exc = NoExc
  /\ call = NoCall
  /\ TextIdle
  /\ CodecIdle
  /\ SheetsIdle

\* heap[1].jump_row(truncate=truncate)
JumpRowStep(truncate) ==
  /\ call = NoCall
  /\ heap' = [ heap EXCEPT ![1] = JumpRow(heap[1], truncate) ]
  /\ exc' = NoExc
  /\ call' = [ name |-> "jump_row", self |-> Some(1), ret |-> Some(1),
               val_none |-> FALSE, args |-> << truncate >> ]
  /\ UNCHANGED last
  /\ Rest

\* heap[1].new_range_by_row(start_index, end_index): the Range returned is
\* a copy, which does not go through __init__
NewRangeByRowStep(start_index, end_index) ==
  /\ call = NoCall
  /\ heap' = Append(heap, NewRangeByRow(heap[1], start_index, end_index))
  /\ exc' = NoExc
  /\ call' = [ name |-> "new_range_by_row", self |-> Some(1),
               ret |-> Some(Len(heap) + 1), val_none |-> FALSE,
               args |-> << start_index, end_index >> ]
  /\ UNCHANGED last
  /\ Rest

\* by_data that sizes _range itself where it should size rg = Range(_range)
ByDataHeapOnBase(h, data) ==
  Append([ h EXCEPT ![1] = ByData(data, h[1]) ], ByData(data, h[1]))

\* the instances after Range.by_data(data, h[1]): rg = Range(_range) is one
\* more instance, the only one set_end_col and set_end_row are called on
ByDataHeap(h, data) ==
  Append(h, ByData(data, Val(RangeOfFields(h[1]).obj)))

\* Range.by_data(data, heap[1]): rg = Range(_range) is a new instance that
\* Range.last is bound to
ByDataStep(data) ==
  /\ call = NoCall
  /\ heap' = ByDataHeap(heap, data)
  /\ last' = Some(Len(heap) + 1)
  /\ exc' = NoExc
  /\ call' = [ name |-> "by_data", self |-> Some(1),
               ret |-> Some(Len(heap) + 1), val_none |-> FALSE,
               args |-> << data >> ]
  /\ Rest

\* heap[1].m(val) for one of the twelve add_/sub_/set_ methods
MutatorStep(m, val) ==
  /\ call = NoCall
  /\ heap' = [ heap EXCEPT ![1] = CallMutator(m, heap[1], val) ]
  /\ exc' = NoExc
  /\ call' = [ name |-> m, self |-> Some(1), ret |-> Some(1),
               val_none |-> (val = None), args |-> << val >> ]
  /\ UNCHANGED last
  /\ Rest

NextDerive ==
  \/ \E truncate \in BOOLEAN : JumpRowStep(truncate)
  \/ \E start_index \in Offsets, end_index \in OptOffsets :
       NewRangeByRowStep(start_index, end_index)
  \/ \E data \in DataGrids : ByDataStep(data)
  \/ \E m \in MutatorNames, val \in OptOffsets : MutatorStep(m, val)
  \/ RangeRangeStep

SpecDerive == InitDerive /\ [][NextDerive]_vars

(***************************************************************************)
(* A Range and its copy: copy() once, then any add_/sub_/set_ calls on     *)
(* either, with coordinates up to MaxAlias.                                *)
(***************************************************************************)
MaxAlias == 1

\* the originals: what Range(...) builds from numbers up to MaxAlias
AliasBases ==
  { Val(RangeOfNumbers(Some(<< "S" >>), a[1], a[2], a[3], a[4]).obj) :
      a \in [ 1..4 -> { None } \cup { Some(n) : n \in 0..MaxAlias } ] }

\* the arguments of the mutators: none, and one row or column
AliasVals == { None, Some(1) }

InAlias(r) ==
  \A a \in { "start_row", "start_col", "end_row", "end_col" } :
    IF r[a] = None THEN TRUE ELSE Val(r[a]) <= MaxAlias

InitAlias ==
  /\ heap \in { << r >> : r \in AliasBases }
  /\ last = Some(1)
  /\ exc = NoExc
  /\ call = NoCall
  /\ TextIdle
  /\ CodecIdle
  /\ SheetsIdle

\* heap[1].copy(deep), once
CopyOnce(deep) ==
  /\ Len(heap) = 1
  /\ Copy(1, deep)

\* heap[i].m(val) on the original or on the copy
AliasMutator(i, m, val) ==
  /\ InAlias(CallMutator(m, heap[i], val))
  /\ Mutator(i, m, val)

NextAlias ==
  \/ \E deep \in BOOLEAN : CopyOnce(deep)
  \/ \E i \in Objs, m \in MutatorNames, val \in AliasVals :
       AliasMutator(i, m, val)

SpecAlias == InitAlias /\ [][NextAlias]_vars

(***************************************************************************)
(* The overloads of Range(...): one construction, with its arguments       *)
(* recorded in call.args, from no instance or from one that exists.        *)
(***************************************************************************)
\* Range(...) is called with up to MaxArgs arguments
MaxArgs == 6

OverloadTexts ==
  { << >>, << "B", "2" >>, << "b", "2" >>, << "B", "2", ":", "D" >>,
    << "B", "3", ":", "A", "1" >>, << "S", "!", "B", "5", ":", "D", "9" >>,
    << "!", "B", "2" >> }

\* the arguments of Range(sheetname, start, end)
OverloadDetached ==
  { None, Some(<< >>), Some(<< "S" >>), Some(<< "a", "!", "b" >>) }
    \X { << >>, << "B", "2" >>, << "A", "0" >>, << "B" >>, << "b", "2" >>,
         << "B", "2", ":", "C", "3" >> }
    \X { None, Some(<< >>), Some(<< "D", "1", "0" >>), Some(<< "A", "1" >>),
         Some(<< "D" >>), Some(<< "4" >>) }

\* the arguments of Range(sheetname, start_col, start_row, end_col, end_row)
OverloadNumbers == SheetNames \X BaseInts \X BaseInts \X BaseInts \X BaseInts

InitOverload ==
  /\ heap \in { << >> } \cup { << r >> : r \in DeriveBases }
  /\ last = (IF heap = << >> THEN None ELSE Some(1))
  /\ exc = NoExc
  /\ call = NoCall
  /\ TextIdle
  /\ CodecIdle
  /\ SheetsIdle

\* Range(s) of a str, with no instance yet
RangeStrStep(s) ==
  /\ heap = << >>
  /\ InitStep("Range(str)", None, << s >>, RangeInit(1, LoadByRange(s)))

\* Range(sheetname, start, end), with no instance yet
RangeDetachedStep(sheetname, start, end) ==
  /\ heap = << >>
  /\ InitStep("Range(detached)", None, << sheetname, start, end >>,
              RangeInit(3, LoadByDetachedRange(sheetname, start, end)))

\* Range(sheetname, start_col, start_row, end_col, end_row), with no
\* instance yet
RangeNumbersStep(sheetname, start_col, start_row, end_col, end_row) ==
  /\ heap = << >>
  /\ InitStep("Range(numbers)", None,
              << sheetname, start_col, start_row, end_col, end_row >>,
              RangeInit(5, LoadByNumber(sheetname, start_col, start_row,
                                        end_col, end_row)))

\* Range(...) of n arguments, n other than 1, 3 and 5: no loader is called
RangeOtherStep(n) ==
  /\ InitLoader(n) = "raise"
  /\ InitStep("Range(other)", None, [ i \in 1..n |-> None ],
              RangeInit(n, Raised(NoExc)))

NextOverload ==
  \/ \E s \in OverloadTexts : RangeStrStep(s)
  \/ RangeRangeStep
  \/ \E a \in OverloadDetached : RangeDetachedStep(a[1], a[2], a[3])
  \/ \E a \in OverloadNumbers :
       RangeNumbersStep(a[1], a[2], a[3], a[4], a[5])
  \/ \E n \in 0..MaxArgs : RangeOtherStep(n)

SpecOverload == InitOverload /\ [][NextOverload]_vars

(***************************************************************************)
(* GoogleSheets: the multi-execute mode that 'with' turns on, the two      *)
(* queues of bodies, and the calls made on the service.                    *)
(***************************************************************************)
\* a body holds up to MaxBody requests, or data entries
MaxBody == 1

\* each queue holds up to MaxQueue bodies
MaxQueue == 2

\* the service is called up to MaxSent times before the last 'with' ends
MaxSent == 1

\* a caller is inside up to MaxWiths 'with' blocks on the GoogleSheets
MaxWiths == 2

\* the number of cells the service answers to have updated is up to MaxCells
MaxCells == 1

\* the lists of requests, or of data entries, of a body
RequestLists == UNION { [ 1..n -> { "a", "b" } ] : n \in 0..MaxBody }

\* body of _execute_batch_update, as format_text, format_cell and
\* add_border build it: {"requests": [...]}
UpdateBodies == [ requests : RequestLists ]

\* body of _execute_batch_update_values, as update builds it:
\* {"data": [...], "valueInputOption": ...}
ValuesBodies ==
  [ data : RequestLists, valueInputOption : { "USER_ENTERED", "RAW" } ]

\* what execute() of a values().batchUpdate gives: None when it raises, or
\* the updatedCells of the first response
Answers == { None } \cup { Some(n) : n \in 0..MaxCells }

\* the test of _execute_batch_update and _execute_batch_update_values
Queues(mode, cancel_multi_execute) == mode /\ ~cancel_multi_execute

\* service.spreadsheets().batchUpdate(body=body)
BatchUpdate(body) == [ api |-> "spreadsheets.batchUpdate", body |-> body ]

\* service.spreadsheets().values().batchUpdate(body=body)
ValuesBatchUpdate(body) ==
  [ api |-> "spreadsheets.values.batchUpdate", body |-> body ]

\* __multi_execute, the loop over __multi_batch_updates_values: the other
\* keys of each batch replace those of body, its data are added to body's
RECURSIVE MergeValues(_, _)
MergeValues(body, batches) ==
  IF batches = << >> THEN body
  ELSE MergeValues([ data |-> body.data \o Head(batches).data,
                     valueInputOption |-> Head(batches).valueInputOption ],
                   Tail(batches))

\* __multi_execute, the loop over __multi_batch_updates
RECURSIVE MergeRequests(_, _)
MergeRequests(body, batches) ==
  IF batches = << >> THEN body
  ELSE MergeRequests([ requests |-> body.requests \o Head(batches).requests ],
                     Tail(batches))

\* __multi_execute, "Update Batch Values": the calls on the service
SendValues(batches) ==
  IF Len(MergeValues([ data |-> << >> ], batches).data) # 0
  THEN << ValuesBatchUpdate(MergeValues([ data |-> << >> ], batches)) >>
  ELSE << >>

\* __multi_execute, "Update Batch": the calls on the service
SendRequests(batches) ==
  IF Len(MergeRequests([ requests |-> << >> ], batches).requests) # 0
  THEN << BatchUpdate(MergeRequests([ requests |-> << >> ], batches)) >>
  ELSE << >>

InitSheets ==
  /\ heap = << >>
  /\ last = None
  /\ exc = NoExc
  /\ call = NoCall
  /\ TextIdle
  /\ CodecIdle
  /\ SheetsIdle

RangeRest ==
  UNCHANGED << heap, last, exc, input, loaded, col_number, col_name,
               col_decoded >>

\* GoogleSheets.__enter__: __active_multi_execute resets, then turns the
\* mode on
Enter ==
  /\ withs < MaxWiths
  /\ withs' = withs + 1
  /\ multi_execute_mode' = TRUE
  /\ multi_batch_updates' = << >>
  /\ multi_batch_updates_values' = << >>
  /\ call' = [ name |-> "__enter__", self |-> None, ret |-> None,
               val_none |-> FALSE, args |-> << >> ]
  /\ UNCHANGED service
  /\ RangeRest

\* GoogleSheets.__exit__: __multi_execute, whose two calls pass
\* cancel_multi_execute=True, then __reset_multi_execute
Exit ==
  /\ withs > 0
  /\ Len(service) < MaxSent
  /\ withs' = withs - 1
  /\ service' = service \o SendValues(multi_batch_updates_values)
                        \o SendRequests(multi_batch_updates)
  /\ multi_execute_mode' = FALSE
  /\ multi_batch_updates' = << >>
  /\ multi_batch_updates_values' = << >>
  /\ call' = [ name |-> "__exit__", self |-> None, ret |-> None,
               val_none |-> FALSE, args |-> << >> ]
  /\ RangeRest

\* GoogleSheets._execute_batch_update(body,
\* cancel_multi_execute=cancel_multi_execute): True or False is returned as
\* execute() returns or raises
ExecuteBatchUpdate(body, cancel_multi_execute) ==
  /\ IF Queues(multi_execute_mode, cancel_multi_execute)
     THEN /\ Len(multi_batch_updates) < MaxQueue
          /\ multi_batch_updates' = Append(multi_batch_updates, body)
          /\ call' = [ name |-> "_execute_batch_update", self |-> None,
                       ret |-> None, val_none |-> FALSE,
                       args |-> << body, cancel_multi_execute >> ]
          /\ UNCHANGED service
     ELSE /\ Len(service) < MaxSent
          /\ service' = Append(service, BatchUpdate(body))
          /\ \E ok \in BOOLEAN :
               call' = [ name |-> "_execute_batch_update", self |-> None,
                         ret |-> Some(ok), val_none |-> FALSE,
                         args |-> << body, cancel_multi_execute >> ]
          /\ UNCHANGED multi_batch_updates
  /\ UNCHANGED << multi_execute_mode, multi_batch_updates_values, withs >>
  /\ RangeRest

\* GoogleSheets._execute_batch_update_values(body,
\* cancel_multi_execute=cancel_multi_execute): the updatedCells of the
\* answer are returned, 0 when execute() raises
ExecuteBatchUpdateValues(body, cancel_multi_execute) ==
  /\ IF Queues(multi_execute_mode, cancel_multi_execute)
     THEN /\ Len(multi_batch_updates_values) < MaxQueue
          /\ multi_batch_updates_values'
               = Append(multi_batch_updates_values, body)
          /\ call' = [ name |-> "_execute_batch_update_values",
                       self |-> None, ret |-> None, val_none |-> FALSE,
                       args |-> << body, cancel_multi_execute >> ]
          /\ UNCHANGED service
     ELSE /\ Len(service) < MaxSent
          /\ service' = Append(service, ValuesBatchUpdate(body))
          /\ \E answer \in Answers :
               call' = [ name |-> "_execute_batch_update_values",
                         self |-> None,
                         ret |-> (IF answer = None THEN Some(0) ELSE answer),
                         val_none |-> FALSE,
                         args |-> << body, cancel_multi_execute >> ]
          /\ UNCHANGED multi_batch_updates_values
  /\ UNCHANGED << multi_execute_mode, multi_batch_updates, withs >>
  /\ RangeRest

NextSheets ==
  \/ Enter
  \/ Exit
  \/ \E body \in UpdateBodies, cancel_multi_execute \in BOOLEAN :
       ExecuteBatchUpdate(body, cancel_multi_execute)
  \/ \E body \in ValuesBodies, cancel_multi_execute \in BOOLEAN :
       ExecuteBatchUpdateValues(body, cancel_multi_execute)

SpecSheets == InitSheets /\ [][NextSheets]_vars

(***************************************************************************)
(* The properties.                                                         *)
(***************************************************************************)
\* the receiver of the last call, when it has one
Self == heap[Val(call.self)]

\* the instance the last call returned
Ret == heap[Val(call.ret)]

StartMutators ==
  { m \in MutatorNames : MutatorAttr[m] \in { "start_row", "start_col" } }

AtLeast(o, n) == IF o = None THEN FALSE ELSE Val(o) >= n

\* an end coordinate is absent, or not before the start coordinate
EndOk(end, start) ==
  IF end = None THEN TRUE
  ELSE IF start = None THEN FALSE ELSE Val(end) >= Val(start)

\* C1: whatever constructor built a Range and whatever add_/sub_/set_ calls
\* followed, its start_row and its start_col are at least 1.
StartAtLeastOne ==
  \A i \in Objs :
    AtLeast(heap[i].start_row, 1) /\ AtLeast(heap[i].start_col, 1)

\* C2: after construction and after every call of a mutator, of jump_row,
\* of by_data and of new_range_by_row, end_row is absent or at least
\* start_row, and end_col is absent or at least start_col.
EndNotBeforeStart ==
  \A i \in Objs :
    /\ EndOk(heap[i].end_row, heap[i].start_row)
    /\ EndOk(heap[i].end_col, heap[i].start_col)

\* sub_end_row has just pulled the end row onto the start row, next to an
\* end column that lies after the start column
EndRowClamped ==
  /\ call.name = "sub_end_row"
  /\ ~call.val_none
  /\ Self.end_row = Self.start_row
  /\ AtLeast(Self.end_col, Val(Self.start_col) + 1)

\* C3: the text get_range() gives for any Range that construction and
\* mutators produce is accepted by Range(...), and gives the same five
\* attributes back.
FieldsRoundTrip ==
  \A i \in Objs : RangeOfText(GetRange(heap[i])) = Built(heap[i])

(***************************************************************************)
(* The three shapes, read off the grammar                                  *)
(* [name!]ColRow[:Col[Row]]: a column is a run of capital letters, a row   *)
(* a run of digits, a name a text of one line.                             *)
(***************************************************************************)
IsCol(s) == s # << >> /\ \A i \in DOMAIN s : s[i] \in UpperSet

IsRow(s) == s # << >> /\ \A i \in DOMAIN s : s[i] \in DigitSet

IsName(s) == s # << >> /\ \A i \in DOMAIN s : s[i] # "\n"

IsColRow(s) ==
  \E k \in 1..(Len(s) - 1) :
    IsCol(SubSeq(s, 1, k)) /\ IsRow(SubSeq(s, k + 1, Len(s)))

IsCells(s) ==
  \/ IsColRow(s)
  \/ \E c \in 2..(Len(s) - 1) :
       /\ s[c] = ":"
       /\ IsColRow(SubSeq(s, 1, c - 1))
       /\ \/ IsCol(SubSeq(s, c + 1, Len(s)))
          \/ IsColRow(SubSeq(s, c + 1, Len(s)))

IsShape(s) ==
  \/ IsCells(s)
  \/ \E p \in 2..(Len(s) - 1) :
       /\ s[p] = "!"
       /\ IsName(SubSeq(s, 1, p - 1))
       /\ IsCells(SubSeq(s, p + 1, Len(s)))

\* the five attributes a text of one of the shapes writes
Written(s) == LoadByRange(s)

\* no end written in s lies before the start written in s
EndsOrdered(s) ==
  IF Written(s).obj = None THEN FALSE
  ELSE /\ EndOk(Val(Written(s).obj).end_row, Val(Written(s).obj).start_row)
       /\ EndOk(Val(Written(s).obj).end_col, Val(Written(s).obj).start_col)

\* Range(input) returned a Range whose get_range() writes what input writes
SameAsWritten ==
  /\ exc = NoExc
  /\ call.ret # None
  /\ Written(GetRange(Ret)) = Written(input)

\* C4, as claimed: for every text of one of the three shapes,
\* Range(s).get_range() writes the same sheet name, the same start cell and
\* the same end bounds as s.
TextRoundTrip ==
  (call.name = "Range(str)" /\ IsShape(input)) => SameAsWritten

\* C4, amended: for every text of one of the three shapes in which no end
\* bound lies before its start bound, Range(s).get_range() writes the same
\* sheet name, the same start cell and the same end bounds as s.
TextRoundTripOrdered ==
  (call.name = "Range(str)" /\ IsShape(input) /\ EndsOrdered(input))
    => SameAsWritten

\* Range("a!b!B02:AA10") has returned
NamedRectangleBuilt ==
  /\ call.name = "Range(str)"
  /\ input = << "a", "!", "b", "!", "B", "0", "2", ":", "A", "A", "1", "0" >>
  /\ call.ret # None
  /\ Ret = MkRange(Some(<< "a", "!", "b" >>), Some(2), Some(2), Some(27),
                   Some(10))

RECURSIVE Pow26(_)
Pow26(n) == IF n = 0 THEN 1 ELSE 26 * Pow26(n - 1)

RECURSIVE BijectiveValue(_)
\* the number a name stands for in bijective base 26: its letters are the
\* digits 1..26, the leftmost the most significant
BijectiveValue(s) ==
  IF s = << >> THEN 0
  ELSE (CHOOSE i \in DOMAIN Letters : Letters[i] = Head(s)) * Pow26(Len(s) - 1)
         + BijectiveValue(Tail(s))

CodecExamples ==
  { << 1, << "A" >> >>, << 26, << "Z" >> >>, << 27, << "A", "A" >> >>,
    << 52, << "A", "Z" >> >>, << 53, << "B", "A" >> >> }

\* C5: for every column number n >= 1, _get_column_number gives n back from
\* _get_column_name(n); the name is n written in bijective base 26, so that
\* 1 is A, 26 is Z, 27 is AA, 52 is AZ and 53 is BA.
CodecRoundTrip ==
  /\ (call.name = "_get_column_number" /\ AtLeast(col_number, 1))
       => /\ col_decoded = col_number
          /\ col_name # None
          /\ BijectiveValue(Val(col_name)) = Val(col_number)
  /\ call.name \in { "_get_column_name", "_get_column_number" }
       => \A e \in CodecExamples :
            col_number = Some(e[1]) => col_name = Some(e[2])

\* 53 has been converted to BA and back
ColumnBADecoded ==
  /\ call.name = "_get_column_number"
  /\ col_number = Some(53)
  /\ col_name = Some(<< "B", "A" >>)
  /\ col_decoded = Some(53)

\* the number each column text of ShapeCols stands for
ColumnOf == (<< "A" >> :> 1) @@ (<< "B" >> :> 2) @@ (<< "A", "A" >> :> 27)

\* the number each row text of ShapeRows stands for
RowOf ==
  (<< "1" >> :> 1) @@ (<< "2" >> :> 2) @@ (<< "0", "2" >> :> 2)
    @@ (<< "1", "0" >> :> 10)

\* the five attributes the parts p stand for
ShapeFields(p) ==
  MkRange(p[1], Some(ColumnOf[p[2]]), Some(RowOf[p[3]]),
          IF p[4] = None THEN None ELSE Some(ColumnOf[Val(p[4])]),
          IF p[5] = None THEN None ELSE Some(RowOf[Val(p[5])]))

\* C6: _load_by_range of a text [name!]ColRow:ColRow gives the four
\* coordinates written, of [name!]ColRow:Col the end column written and no
\* end row, of [name!]ColRow no end at all; the sheet name is the text
\* before the last "!" ahead of the cell, None without one; so
\* "Sheet1!B2:D10" gives Sheet1, 2, 2, 4 and 10.
ShapesParsed ==
  call.name = "_load_by_range"
    => /\ \A p \in ShapeParts :
            input = ShapeText(p) => loaded = Some(Built(ShapeFields(p)))
       /\ input = Sheet1 \o << "!", "B", "2", ":", "D", "1", "0" >>
            => loaded = Some(Built(MkRange(Some(Sheet1), Some(2), Some(2),
                                           Some(4), Some(10))))

\* _load_by_range("a!b!B2:AA") has returned: the name holds a "!", the end
\* has a column and no row
NamedColumnEndLoaded ==
  /\ call.name = "_load_by_range"
  /\ input = << "a", "!", "b", "!", "B", "2", ":", "A", "A" >>
  /\ loaded = Some(Built(MkRange(Some(<< "a", "!", "b" >>), Some(2), Some(2),
                                 Some(27), None)))

\* C7: Range("") raises EmptyRangeException.
EmptyTextRaisesEmpty ==
  (call.name = "Range(str)" /\ input = << >>)
    => exc.type = "EmptyRangeException"

\* C8: Range(s) of a non-empty text s of none of the three shapes raises
\* InvalidRangeException with s in its message, builds no Range and leaves
\* Range.last as it was.
OtherTextRaisesInvalid ==
  [][ (call = NoCall /\ call'.name = "Range(str)" /\ input # << >>
         /\ ~IsShape(input))
        => /\ exc' = InvalidRangeException(input)
           /\ heap' = heap
           /\ last' = last ]_vars

\* C9: set_end_row(None) on a Range with an end row leaves it without one,
\* and set_end_col(None) on a Range with an end column leaves it without one.
SetEndNoneOpens ==
  [][ \A i \in Objs :
        (call'.self = Some(i) /\ call'.val_none)
          => /\ (call'.name = "set_end_row" /\ heap[i].end_row # None)
                  => heap'[i].end_row = None
             /\ (call'.name = "set_end_col" /\ heap[i].end_col # None)
                  => heap'[i].end_col = None ]_vars

\* C10: a call of add_/sub_/set_ on start_row or start_col, of
\* set_sheetname, of copy, or of any mutator without an argument leaves an
\* absent end_row absent and an absent end_col absent, in the receiver and
\* in the copy.
OpenEndsPreserved ==
  [][ \A i \in Objs :
        ( /\ call'.self = Some(i)
          /\ \/ call'.name \in StartMutators \cup { "set_sheetname", "copy" }
             \/ call'.name \in MutatorNames /\ call'.val_none )
          => \A a \in { "end_row", "end_col" } :
               heap[i][a] = None
                 => /\ heap'[i][a] = None
                    /\ heap'[Val(call'.ret)][a] = None ]_vars

\* set_start_row(n) has returned on a Range of a single cell, which has
\* neither end
StartSetOnOpenRange ==
  /\ call.name = "set_start_row"
  /\ ~call.val_none
  /\ Self.start_row = Some(2)
  /\ Self.end_row = None
  /\ Self.end_col = None

\* r with start_row moved by n
StartRowMoved(r, n) == [ r EXCEPT !.start_row = Some(Val(@) + n) ]

\* r with start_row and a present end_row moved by n
RowsMoved(r, n) ==
  [ r EXCEPT !.start_row = Some(Val(@) + n),
             !.end_row = IF @ = None THEN @ ELSE Some(Val(@) + n) ]

\* C11: jump_row, with or without truncate, on a Range without end_row
\* leaves it without end_row, and get_range() stays a text of one of the
\* three shapes.
JumpKeepsOpenEnd ==
  [][ (call'.name = "jump_row" /\ heap[1].end_row = None)
        => /\ heap'[1].end_row = None
           /\ IsShape(GetRange(heap'[1])) ]_vars

\* C12: jump_row() without truncate on a Range with an end_row adds exactly
\* 1 to start_row and to end_row, also when they are equal, and changes
\* nothing else.
JumpSlidesWindow ==
  [][ (call'.name = "jump_row" /\ call'.args = << FALSE >>
         /\ heap[1].end_row # None)
        => heap'[1] = RowsMoved(heap[1], 1) ]_vars

\* C13, as claimed: jump_row(truncate=True) adds exactly 1 to start_row and
\* changes nothing else, end_row included, also on a Range of a single row.
JumpTruncateKeepsEnd ==
  [][ (call'.name = "jump_row" /\ call'.args = << TRUE >>)
        => heap'[1] = StartRowMoved(heap[1], 1) ]_vars

\* C13, amended: jump_row(truncate=True) adds exactly 1 to start_row and
\* changes nothing else, but for an end_row equal to start_row, which
\* follows the start row.
JumpTruncateKeepsEndAbove ==
  [][ (call'.name = "jump_row" /\ call'.args = << TRUE >>)
        => heap'[1] = IF heap[1].end_row = heap[1].start_row
                      THEN RowsMoved(heap[1], 1)
                      ELSE StartRowMoved(heap[1], 1) ]_vars

\* jump_row(truncate=True) has returned on B2:D10, which is B3:D10 now
TruncatedJumpDone ==
  /\ call.name = "jump_row"
  /\ call.args = << TRUE >>
  /\ heap[1] = MkRange(None, Some(2), Some(3), Some(4), Some(10))

\* the data by_data was called with
Data == call.args[1]

\* C14: by_data(data, base) of data with at least one row, the first of at
\* least one cell, returns a Range with the sheet name and the start of
\* base, end_col = start_col + cols - 1 and end_row = start_row + rows - 1,
\* whatever ends base has; base stays as it is.
ByDataCovers ==
  [][ (call'.name = "by_data" /\ Len(Data') >= 1 /\ Len(Data'[1]) >= 1)
        => /\ heap'[2] =
                [ heap[1] EXCEPT
                    !.end_col =
                      Some(Val(heap[1].start_col) + Len(Data'[1]) - 1),
                    !.end_row = Some(Val(heap[1].start_row) + Len(Data') - 1) ]
           /\ heap'[1] = heap[1] ]_vars

\* by_data of 3 rows of 2 cells on the Range of "B2" has returned B2:C4
ByDataOnB2Done ==
  /\ call.name = "by_data"
  /\ heap[1] = MkRange(None, Some(2), Some(2), None, None)
  /\ Len(Data) = 3
  /\ Len(Data[1]) = 2
  /\ GetRange(Ret) = << "B", "2", ":", "C", "4" >>

\* C15: by_data of no rows returns a Range with end_col = start_col - 1,
\* which is not the Range it returns for one row of one cell.
ByDataEmptyHasNoColumn ==
  [][ (call'.name = "by_data" /\ Len(Data') = 0)
        => /\ heap'[2].end_col = Some(Val(heap[1].start_col) - 1)
           /\ heap'[2] # ByData(<< << "x" >> >>, heap[1]) ]_vars

\* C16: new_range_by_row(start_index, end_index) on a Range of start row S
\* returns a Range with the same sheet name and columns, start_row =
\* S + start_index, and end_row = S + end_index, or start_row without
\* end_index; the receiver stays as it is.
NewRangeRelativeToBase ==
  [][ call'.name = "new_range_by_row"
        => /\ heap'[2] =
                [ heap[1] EXCEPT
                    !.start_row = Some(Val(heap[1].start_row) + call'.args[1]),
                    !.end_row =
                      IF call'.args[2] = None
                      THEN Some(Val(heap[1].start_row) + call'.args[1])
                      ELSE Some(Val(heap[1].start_row) + Val(call'.args[2])) ]
           /\ heap'[1] = heap[1] ]_vars

\* where "add", "sub" or "change" of n takes a coordinate that is old
Target(old, mode, n) ==
  IF mode = "change" THEN n
  ELSE IF mode = "add" THEN Val(old) + n ELSE Val(old) - n

\* the start attribute on the axis of attr, and the end attribute
StartOf(attr) ==
  IF attr \in { "start_row", "end_row" } THEN "start_row" ELSE "start_col"

EndOf(attr) ==
  IF attr \in { "start_row", "end_row" } THEN "end_row" ELSE "end_col"

\* the mutator m with the integer n took heap[1] to heap'[1]: an end sent
\* below its start is on the start, which stays; a start sent past a
\* present end has the end on it
ClampedBy(m, n) ==
  /\ ( /\ MutatorAttr[m] = EndOf(MutatorAttr[m])
       /\ MutatorMode[m] = "change" \/ heap[1][MutatorAttr[m]] # None
       /\ Target(heap[1][MutatorAttr[m]], MutatorMode[m], n)
            < Val(heap[1][StartOf(MutatorAttr[m])]) )
       => /\ heap'[1][MutatorAttr[m]] = heap[1][StartOf(MutatorAttr[m])]
          /\ heap'[1][StartOf(MutatorAttr[m])]
               = heap[1][StartOf(MutatorAttr[m])]
  /\ ( /\ MutatorAttr[m] = StartOf(MutatorAttr[m])
       /\ heap[1][EndOf(MutatorAttr[m])] # None
       /\ Target(heap[1][MutatorAttr[m]], MutatorMode[m], n)
            > Val(heap[1][EndOf(MutatorAttr[m])]) )
       => /\ heap'[1][MutatorAttr[m]]
               = Some(Target(heap[1][MutatorAttr[m]], MutatorMode[m], n))
          /\ heap'[1][EndOf(MutatorAttr[m])] = heap'[1][MutatorAttr[m]]

\* C17: no add_/sub_/set_ call raises, whatever the integer and the Range;
\* an end set or moved below its start ends on the start, which stays, and
\* a start moved past a present end takes that end with it.
MutatorsClamp ==
  [][ \A m \in MutatorNames :
        (call'.name = m /\ ~call'.val_none)
          => /\ exc' = NoExc
             /\ call'.ret = call'.self
             /\ ClampedBy(m, Val(call'.args[1])) ]_vars

\* sub_end_row(2) has returned on a Range whose end row was less than 2
\* rows after the start row 3, and has left the end row on the start row
EndRowSentBelowStart ==
  /\ call.name = "sub_end_row"
  /\ call.args = << Some(2) >>
  /\ heap[1].start_row = Some(3)
  /\ heap[1].end_row = Some(3)

\* the letters of a column and the digits of a row, nothing for an absent
\* one
LettersOf(col) == IF GetColumnName(col) = None THEN << >> ELSE Val(GetColumnName(col))

DigitsOf(row) == IF row = None THEN << >> ELSE IntToStr(Val(row))

\* [sheet_name!]<start>[:<end>] of the five attributes
NotationOf(r) ==
  (IF r.sheetname = None THEN << >> ELSE Val(r.sheetname) \o << "!" >>)
    \o LettersOf(r.start_col) \o DigitsOf(r.start_row)
    \o (IF r.end_row = None /\ r.end_col = None THEN << >>
        ELSE << ":" >> \o LettersOf(r.end_col) \o DigitsOf(r.end_row))

\* the text None is nowhere in s
NoPlaceholder(s) ==
  \A i \in 1..(Len(s) - 3) : SubSeq(s, i, i + 3) # NoneText

\* start and end segment are letters followed by digits, the end segment
\* letters alone without end_row
WellFormed(r) ==
  /\ LettersOf(r.start_col) # << >>
  /\ r.start_row # None
  /\ (r.end_row # None \/ r.end_col # None) => LettersOf(r.end_col) # << >>

\* C18: get_range() of any Range that construction and mutation produce is
\* [sheet_name!]<start>[:<end>], the start being letters and a row number,
\* the end missing without end_row and end_col, letters without end_row,
\* letters and a row number otherwise; it never holds the text None.
NotationWellFormed ==
  \A i \in Objs :
    /\ GetRange(heap[i]) = NotationOf(heap[i])
    /\ WellFormed(heap[i])
    /\ NoPlaceholder(GetRange(heap[i]))

\* C19: copy(), shallow or deep, returns another Range with the five
\* attributes of the original; any later add_/sub_/set_ call on one of the
\* two leaves the other as it is.
CopyIndependent ==
  [][ /\ call'.name = "copy"
           => /\ call'.ret = Some(Len(heap) + 1)
              /\ call'.ret # call'.self
              /\ Len(heap') = Len(heap) + 1
              /\ heap'[Len(heap) + 1] = heap[Val(call'.self)]
              /\ heap'[Val(call'.self)] = heap[Val(call'.self)]
      /\ call'.name \in MutatorNames
           => /\ Len(heap') = Len(heap)
              /\ \A j \in Objs : Some(j) # call'.self => heap'[j] = heap[j] ]_vars

\* add_start_row(1) has returned on the copy, which now differs from the
\* original
CopyMutated ==
  /\ Len(heap) = 2
  /\ call.name = "add_start_row"
  /\ call.self = Some(2)
  /\ ~call.val_none
  /\ heap[2].start_row = Some(Val(heap[1].start_row) + 1)

Constructors ==
  { "Range(str)", "Range(Range)", "Range(detached)", "Range(numbers)",
    "Range(other)", "by_data" }

\* C20: Range.last is the instance of the latest construction that
\* returned, by any constructor or inside by_data; a construction that
\* raises and any other call leave Range.last as it is, and a mutator
\* returns its receiver, so that a call on Range.last changes that instance.
LastIsLatestConstructed ==
  [][ /\ (call'.name \in Constructors /\ exc' = NoExc)
           => /\ last' = Some(Len(heap) + 1)
              /\ last' = call'.ret
              /\ Len(heap') = Len(heap) + 1
      /\ (call'.name \notin Constructors \/ exc' # NoExc) => last' = last
      /\ call'.name \in MutatorNames
           => /\ call'.ret = call'.self
              /\ Len(heap') = Len(heap) ]_vars

\* a second Range has been constructed from numbers, it differs from the
\* first, and Range.last is the second
SecondConstructed ==
  /\ Len(heap) = 2
  /\ call.name = "Range(numbers)"
  /\ last = Some(2)
  /\ heap[1] # heap[2]

\* the integer add and sub start from: the coordinate, or 0 when absent
OrZero(o) == IF o = None THEN 0 ELSE Val(o)

\* a start coordinate under the consistency rule: at least 1
NormalStart(start) ==
  IF start = None THEN Some(1)
  ELSE IF Val(start) < 1 THEN Some(1) ELSE start

\* an end coordinate under the consistency rule: absent, or not before the
\* start
NormalEnd(end, start) ==
  IF end = None THEN None
  ELSE IF Val(end) < Val(start) THEN start ELSE end

\* the five fields under the consistency rule
Normalized(r) ==
  [ sheetname |-> r.sheetname,
    start_row |-> NormalStart(r.start_row),
    start_col |-> NormalStart(r.start_col),
    end_row |-> NormalEnd(r.end_row, NormalStart(r.start_row)),
    end_col |-> NormalEnd(r.end_col, NormalStart(r.start_col)) ]

\* what add or sub of n makes of the field of r that m is about
Moved(r, m, n) ==
  IF MutatorMode[m] = "add" THEN OrZero(r[MutatorAttr[m]]) + n
  ELSE OrZero(r[MutatorAttr[m]]) - n

\* C21: add_X(n) leaves the Range as the consistency rule makes it from X
\* set to (X, or 0 when X is absent) + n, sub_X(n) from X set to (X, or 0
\* when absent) - n; a mutator called without argument returns its Range
\* with the five fields unchanged.
ModesAddSubNoop ==
  [][ \A m \in MutatorNames :
        call'.name = m
          => /\ call'.ret = call'.self
             /\ call'.val_none => heap'[1] = heap[1]
             /\ (~call'.val_none /\ MutatorMode[m] # "change")
                  => heap'[1]
                       = Normalized(
                           [ heap[1] EXCEPT ![MutatorAttr[m]] =
                               Some(Moved(heap[1], m, Val(call'.args[1]))) ])
    ]_vars

\* the same, for a Range whose start coordinates are at least 1 and a call
\* that does not take a start coordinate to 0
ModesAddSubNoopOffZero ==
  [][ \A m \in MutatorNames :
        ( /\ call'.name = m
          /\ AtLeast(heap[1].start_row, 1)
          /\ AtLeast(heap[1].start_col, 1) )
          => /\ call'.ret = call'.self
             /\ call'.val_none => heap'[1] = heap[1]
             /\ ( /\ ~call'.val_none
                  /\ MutatorMode[m] # "change"
                  /\ ~( /\ MutatorAttr[m] = StartOf(MutatorAttr[m])
                        /\ Moved(heap[1], m, Val(call'.args[1])) = 0 ) )
                  => heap'[1]
                       = Normalized(
                           [ heap[1] EXCEPT ![MutatorAttr[m]] =
                               Some(Moved(heap[1], m, Val(call'.args[1]))) ])
    ]_vars

\* the text [sheet!]start[:end]
Joined(sheet, start, end) ==
  (IF sheet = None THEN << >> ELSE Val(sheet) \o << "!" >>)
    \o start \o (IF end = None THEN << >> ELSE << ":" >> \o Val(end))

\* the call made in this step ends as outcome does: with its exception and
\* no new instance, or with a new instance of its five fields
EndsAs(outcome) ==
  /\ exc' = outcome.exc
  /\ IF outcome.obj = None THEN heap' = heap /\ call'.ret = None
     ELSE /\ heap' = Append(heap, Val(outcome.obj))
          /\ call'.ret = Some(Len(heap'))

DetachedAsText ==
  call'.name = "Range(detached)"
    => EndsAs(RangeOfText(Joined(call'.args[1], call'.args[2],
                                 call'.args[3])))

RangeAsRange ==
  call'.name = "Range(Range)"
    => /\ exc' = NoExc
       /\ heap' = Append(heap, heap[call'.args[1]])

NumbersNormalized ==
  call'.name = "Range(numbers)"
    => /\ exc' = NoExc
       /\ heap' = Append(heap,
                         Normalized(MkRange(call'.args[1], call'.args[2],
                                            call'.args[3], call'.args[4],
                                            call'.args[5])))

OtherCountRaises ==
  ( /\ call'.name \in { "Range(str)", "Range(Range)", "Range(detached)",
                        "Range(numbers)", "Range(other)" }
    /\ Len(call'.args) \notin { 1, 3, 5 } )
    => /\ exc' = EmptyRangeException
       /\ heap' = heap

\* C22: Range(sheet, start, end) ends as Range(text) does for the text
\* [sheet!]start[:end]; Range(r) of a Range r builds a Range of r's five
\* fields; Range(sheet, start_col, start_row, end_col, end_row) builds the
\* Range the consistency rule makes of these five values; Range(...) with
\* a number of arguments other than 1, 3 and 5 raises EmptyRangeException.
OverloadsAgree ==
  [][ /\ DetachedAsText
      /\ RangeAsRange
      /\ NumbersNormalized
      /\ OtherCountRaises ]_vars

\* the same, but for Range(sheet, start_col, start_row, end_col, end_row)
\* called with a start_col or a start_row of 0
OverloadsAgreeOffZero ==
  [][ /\ DetachedAsText
      /\ RangeAsRange
      /\ ( /\ call'.name = "Range(numbers)"
           /\ call'.args[2] # Some(0)
           /\ call'.args[3] # Some(0) ) => NumbersNormalized
      /\ OtherCountRaises ]_vars

IsRowAttr(attr) == attr \in { "start_row", "end_row" }

\* C23: no add_/sub_/set_ call changes the sheet name; a call on start_row
\* or end_row changes neither start_col nor end_col, a call on start_col or
\* end_col changes neither start_row nor end_row; a call on end_row does
\* not change start_row and a call on end_col does not change start_col.
MutatorFrame ==
  [][ \A m \in MutatorNames :
        call'.name = m
          => /\ heap'[1].sheetname = heap[1].sheetname
             /\ IsRowAttr(MutatorAttr[m])
                  => /\ heap'[1].start_col = heap[1].start_col
                     /\ heap'[1].end_col = heap[1].end_col
             /\ ~IsRowAttr(MutatorAttr[m])
                  => /\ heap'[1].start_row = heap[1].start_row
                     /\ heap'[1].end_row = heap[1].end_row
             /\ MutatorAttr[m] = EndOf(MutatorAttr[m])
                  => heap'[1][StartOf(MutatorAttr[m])]
                       = heap[1][StartOf(MutatorAttr[m])] ]_vars

\* set_end_col(1) has returned on a Range of the sheet S that starts in
\* column 3: the end column is on the start column, which is still 3, and
\* the rows 2 to 3 are as they were in one of the bases
EndColSetBelowStart ==
  /\ call.name = "set_end_col"
  /\ call.args = << Some(1) >>
  /\ heap[1] = MkRange(Some(<< "S" >>), Some(3), Some(2), Some(3), Some(3))

\* C24: Range.by_data(data, base) and Range(base) of a Range base leave
\* the five fields of base as they were, whatever the grid and the base,
\* and return another instance.
BaseUntouched ==
  [][ call'.name \in { "by_data", "Range(Range)" }
        => /\ call'.self = Some(1)
           /\ heap'[1] = heap[1]
           /\ call'.ret = Some(2)
           /\ Len(heap') = 2 ]_vars

\* by_data of 3 rows of 2 cells has returned B2:C4 for the base B2:D10,
\* which is still B2:D10
BaseKeptItsEnd ==
  /\ call.name = "by_data"
  /\ Len(call.args[1]) = 3
  /\ heap[1] = MkRange(None, Some(2), Some(2), Some(4), Some(10))
  /\ heap[2] = MkRange(None, Some(2), Some(2), Some(3), Some(4))

\* this step is a call of _execute_batch_update or of
\* _execute_batch_update_values that leaves cancel_multi_execute at its
\* default, as update, format_text, format_cell and add_border make it
Executes ==
  /\ call'.name \in { "_execute_batch_update", "_execute_batch_update_values" }
  /\ call'.args[2] = FALSE

\* the call of this step has put its body at the end of its queue, has
\* called nothing on the service and has returned None
QueuedOnly ==
  /\ service' = service
  /\ call'.ret = None
  /\ IF call'.name = "_execute_batch_update"
     THEN /\ multi_batch_updates' = Append(multi_batch_updates, call'.args[1])
          /\ multi_batch_updates_values' = multi_batch_updates_values
     ELSE /\ multi_batch_updates_values'
               = Append(multi_batch_updates_values, call'.args[1])
          /\ multi_batch_updates' = multi_batch_updates

\* the call of this step has made its one call on the service, with its
\* body, and has queued nothing
SentOnly ==
  /\ service'
       = Append(service,
                IF call'.name = "_execute_batch_update"
                THEN BatchUpdate(call'.args[1])
                ELSE ValuesBatchUpdate(call'.args[1]))
  /\ multi_batch_updates' = multi_batch_updates
  /\ multi_batch_updates_values' = multi_batch_updates_values

\* C25: a call of _execute_batch_update or _execute_batch_update_values
\* made inside a 'with' block of the GoogleSheets calls nothing on the
\* service, appends its body to the pending queue and returns None; made
\* outside of every 'with' block, it calls the service at once and queues
\* nothing.
QueuedInsideWith ==
  [][ Executes => IF withs > 0 THEN QueuedOnly ELSE SentOnly ]_vars

\* the same, with the multi-execute mode in the place of the 'with' block
QueuedWhileModeOn ==
  [][ Executes => IF multi_execute_mode THEN QueuedOnly ELSE SentOnly ]_vars

\* the requests, or the data, of the bodies of a queue, in the order in
\* which they were queued
RECURSIVE Entries(_, _)
Entries(batches, key) ==
  IF batches = << >> THEN << >>
  ELSE Head(batches)[key] \o Entries(Tail(batches), key)

IsPrefix(s, t) == Len(s) <= Len(t) /\ \A i \in DOMAIN s : s[i] = t[i]

OneIf(b) == IF b THEN 1 ELSE 0

\* the step has made, after the calls made before it, one values call with
\* all the data queued, if any, then one call with all the requests
\* queued, if any, and no other call
SentTheQueues ==
  /\ IsPrefix(service, service')
  /\ Len(service')
       = Len(service)
           + OneIf(Entries(multi_batch_updates_values, "data") # << >>)
           + OneIf(Entries(multi_batch_updates, "requests") # << >>)
  /\ Entries(multi_batch_updates_values, "data") # << >>
       => /\ service'[Len(service) + 1].api = "spreadsheets.values.batchUpdate"
          /\ service'[Len(service) + 1].body.data
               = Entries(multi_batch_updates_values, "data")
  /\ Entries(multi_batch_updates, "requests") # << >>
       => /\ service'[Len(service')].api = "spreadsheets.batchUpdate"
          /\ service'[Len(service')].body.requests
               = Entries(multi_batch_updates, "requests")

\* the requests and the data that are queued stay queued, in their order
StaysQueued ==
  /\ IsPrefix(Entries(multi_batch_updates, "requests"),
              Entries(multi_batch_updates', "requests"))
  /\ IsPrefix(Entries(multi_batch_updates_values, "data"),
              Entries(multi_batch_updates_values', "data"))

\* the exit of a 'with' block sends the two queues and leaves them empty,
\* with the multi-execute mode off
ExitSendsAll ==
  call'.name = "__exit__"
    => /\ SentTheQueues
       /\ multi_batch_updates' = << >>
       /\ multi_batch_updates_values' = << >>
       /\ multi_execute_mode' = FALSE

\* C26: what is queued on a GoogleSheets inside a 'with' block stays
\* queued until a 'with' block exits, whatever is called in between, an
\* enter of 'with' included; the exit makes one call with all the value
\* updates queued, in the order of queueing, then one call with all the
\* format requests queued, in that order, no call for an empty queue, and
\* leaves both queues empty and the multi-execute mode off.
QueuedSentOnExit ==
  [][ /\ ExitSendsAll
      /\ call'.name # "__exit__" => StaysQueued ]_vars

\* the same, but for the enter of a 'with' block
QueuedSentOnExitButEnter ==
  [][ /\ ExitSendsAll
      /\ call'.name \notin { "__exit__", "__enter__" } => StaysQueued ]_vars

====
